---- MODULE Spec2Model ----
(***************************************************************************)
(* Model of the Java comment extractor: the lexical scanner `process`      *)
(* (src/main.rs), the character source BufferedCharReader                  *)
(* (src/buffered_char_reader.rs) and the output sink OutputWriter          *)
(* (src/output_writer.rs).                                                 *)
(***************************************************************************)
EXTENDS Integers, Sequences, FiniteSets, TLC

(***************************************************************************)
(* Bounds                                                                  *)
(***************************************************************************)
\* longest input string given to process
MaxLen == 5
\* longest input string given to process in the runs checked for termination
MaxFairLen == 4
\* longest stream under a BufferedCharReader
MaxStream == 4
\* calls of next_char allowed once the stream is exhausted
MaxEofCalls == 2
\* largest argument of write_n_spaces
MaxN == 35

(***************************************************************************)
(* Characters.  Every character process tells apart, plus one ordinary     *)
(* code character.                                                         *)
(***************************************************************************)
SLASH == "/"
STAR == "*"
DQUOTE == "\""
SQUOTE == "'"
BACKSLASH == "\\"
NL == "\n"
SPACE == " "
TAB == "\t"
LETTER == "x"

Alphabet == {SLASH, STAR, DQUOTE, SQUOTE, BACKSLASH, NL, SPACE, TAB, LETTER}

\* the value of chars.peek() / chars.next() at the end of the input
None == "None"

\* enum State
Normal == "Normal"
LineComment == "LineComment"
BlockComment == "BlockComment"
StringLiteral == "StringLiteral"
TextBlockLiteral == "TextBlockLiteral"
CharLiteral == "CharLiteral"

State == {Normal, LineComment, BlockComment, StringLiteral, TextBlockLiteral, CharLiteral}

\* the sequences over S of length k
SeqsOfLen(S, k) == [1..k -> S]

VARIABLES
    input,              \* process: the argument input, as a sequence of chars
    preserve_strings,   \* process: the argument preserve_strings
    state,              \* process: let mut state
    chars,              \* process: let mut chars, as the number of characters taken from it
    output,             \* process: let mut output
    stdout,             \* main: what has been written to standard output
    exit                \* main: "running", or "Ok" once main has returned Ok(())

scanVars == <<input, preserve_strings, state, chars, output, stdout, exit>>

VARIABLES
    stream,             \* the characters of the stream under the BufferedCharReader
    self,               \* BufferedCharReader: reader (as the number of characters
                        \* read from the stream), buf, pos, peeked
    called,             \* the last method called on the reader
    returned,           \* the value the last call returned
    got                 \* the values the calls of next_char returned, in order

readerVars == <<stream, self, called, returned, got>>

VARIABLES
    n,                  \* write_n_spaces: the argument n
    remaining,          \* write_n_spaces: let mut remaining
    writer,             \* OutputWriter: what has been written to writer
    result              \* write_n_spaces: "running", or the returned "Ok" or "Err"

writerVars == <<n, remaining, writer, result>>

vars == <<scanVars, readerVars, writerVars>>

(***************************************************************************)
(* The peekable iterator `chars`, as a position p in input: p characters   *)
(* have been taken by chars.next().                                        *)
(***************************************************************************)
Peek(p) == IF p < Len(input) THEN input[p + 1] ELSE None

Spaces(k) == [i \in 1..k |-> SPACE]

\* the result of one iteration of the loop of process
Res(st, p, em) == [state |-> st, pos |-> p, emit |-> em]

RECURSIVE SkipBlanks_lines(_)
\* SkipBlanks with the newline taken for a blank
SkipBlanks_lines(p) ==
    IF Peek(p) \in {SPACE, TAB, NL} THEN SkipBlanks_lines(p + 1) ELSE p

RECURSIVE SkipBlanks(_)
\* maybe_close_block_comment: while let Some(' ' | '\t') = chars.peek()
SkipBlanks(p) ==
    IF Peek(p) \in {SPACE, TAB} THEN SkipBlanks(p + 1) ELSE p

\* fn maybe_close_block_comment: result and the position it leaves chars at
maybe_close_block_comment(p) ==
    LET q == SkipBlanks(p)
    IN  IF Peek(q) = STAR
        THEN IF Peek(q + 1) = SLASH THEN [closed |-> TRUE, pos |-> q + 2]
             ELSE IF Peek(q + 1) = SPACE THEN [closed |-> FALSE, pos |-> q + 2]
             ELSE [closed |-> FALSE, pos |-> q + 1]
        ELSE [closed |-> FALSE, pos |-> q]

RECURSIVE SkipStars(_)
\* Normal, block comment opener: while let Some('*') = chars.peek()
SkipStars(p) ==
    IF Peek(p) = STAR THEN SkipStars(p + 1) ELSE p

\* Normal, c = '/'.  p is the position after c.
NormalSlash(p) ==
    IF Peek(p) = SLASH THEN Res(LineComment, p + 1, Spaces(2))
    ELSE IF Peek(p) = STAR
    THEN LET q == SkipStars(p + 1)
             m == maybe_close_block_comment(q)
         IN  Res(IF m.closed THEN Normal ELSE BlockComment, m.pos, Spaces(2 + (q - (p + 1))))
    ELSE Res(Normal, p, Spaces(1))

\* NormalQuote with no lookahead for a third quote
NormalQuote_two(p) ==
    IF Peek(p) = DQUOTE
    THEN Res(Normal, p + 1, Spaces(2))
    ELSE Res(StringLiteral, p, Spaces(1))

\* Normal, c = '"'
NormalQuote(p) ==
    IF Peek(p) = DQUOTE
    THEN IF Peek(p + 1) = DQUOTE
         THEN Res(TextBlockLiteral, p + 2, Spaces(3))
         ELSE Res(Normal, p + 1, Spaces(2))
    ELSE Res(StringLiteral, p, Spaces(1))

\* NormalOther with the default arm copying the character
NormalOther_copies(c, p) ==
    IF c = SQUOTE THEN Res(CharLiteral, p, Spaces(1))
    ELSE IF c = NL THEN Res(Normal, p, <<NL>>)
    ELSE Res(Normal, p, <<c>>)

\* Normal, the arms '\'', '\n' and _
NormalOther(c, p) ==
    IF c = SQUOTE THEN Res(CharLiteral, p, Spaces(1))
    ELSE IF c = NL THEN Res(Normal, p, <<NL>>)
    ELSE Res(Normal, p, Spaces(1))

\* State::Normal
NormalArm(c, p) ==
    IF c = SLASH THEN NormalSlash(p)
    ELSE IF c = DQUOTE THEN NormalQuote(p)
    ELSE NormalOther(c, p)

\* LineCommentArm with a backslash taking the character after it along
LineCommentArm_escapes(c, p) ==
    IF c = NL THEN Res(Normal, p, <<NL>>)
    ELSE IF c = BACKSLASH
    THEN Res(LineComment, IF Peek(p) = None THEN p ELSE p + 1, <<c>>)
    ELSE Res(LineComment, p, <<c>>)

\* State::LineComment
LineCommentArm(c, p) ==
    IF c = NL THEN Res(Normal, p, <<NL>>)
    ELSE Res(LineComment, p, <<c>>)

\* State::BlockComment
BlockCommentArm(c, p) ==
    IF c = STAR
    THEN IF Peek(p) = SLASH THEN Res(Normal, p + 1, Spaces(2))
         ELSE Res(BlockComment, p, <<STAR>>)
    ELSE IF c = NL
    THEN LET m == maybe_close_block_comment(p)
         IN  Res(IF m.closed THEN Normal ELSE BlockComment, m.pos, <<NL>>)
    ELSE Res(BlockComment, p, <<c>>)

\* StringLiteral and TextBlockLiteral, c = '\\': what is pushed for the
\* escaped character, when there is one
EscapeEmit(p, pre) ==
    IF Peek(p) = None THEN <<>>
    ELSE IF pre THEN <<Peek(p)>> ELSE <<SPACE>>

\* EscapeNext with the escaped character left in chars
EscapeNext_leaves(p) == p

\* EscapeNext with the escaped character taken without a look at the end of
\* the input
EscapeNext_unwraps(p) == p + 1

\* the position after if let Some(..) = chars.next()
EscapeNext(p) == IF Peek(p) = None THEN p ELSE p + 1

\* StringLiteral and TextBlockLiteral, a content character
Content(c, pre) == IF pre THEN <<c>> ELSE <<SPACE>>

\* StringLiteralArm with the newline arm leaving the state as it is
StringLiteralArm_staysOpen(c, p, pre) ==
    IF c = BACKSLASH THEN Res(StringLiteral, EscapeNext(p), EscapeEmit(p, pre))
    ELSE IF c = DQUOTE THEN Res(Normal, p, Spaces(1))
    ELSE IF c = NL THEN Res(StringLiteral, p, <<NL>>)
    ELSE Res(StringLiteral, p, Content(c, pre))

\* StringLiteralArm with the backslash kept as content, and the character
\* after it left for the next iteration, when strings are preserved
StringLiteralArm_raw(c, p, pre) ==
    IF c = BACKSLASH /\ pre THEN Res(StringLiteral, p, <<c>>)
    ELSE IF c = BACKSLASH THEN Res(StringLiteral, EscapeNext(p), EscapeEmit(p, pre))
    ELSE IF c = DQUOTE THEN Res(Normal, p, Spaces(1))
    ELSE IF c = NL THEN Res(Normal, p, <<NL>>)
    ELSE Res(StringLiteral, p, Content(c, pre))

\* State::StringLiteral
StringLiteralArm(c, p, pre) ==
    IF c = BACKSLASH THEN Res(StringLiteral, EscapeNext(p), EscapeEmit(p, pre))
    ELSE IF c = DQUOTE THEN Res(Normal, p, Spaces(1))
    ELSE IF c = NL THEN Res(Normal, p, <<NL>>)
    ELSE Res(StringLiteral, p, Content(c, pre))

\* TextBlockLiteral, c = '"'
TextBlockQuote(p, pre) ==
    IF Peek(p) = DQUOTE
    THEN IF Peek(p + 1) = DQUOTE
         THEN Res(Normal, p + 2, Spaces(3))
         ELSE Res(TextBlockLiteral, p + 1, Content(DQUOTE, pre))
    ELSE Res(TextBlockLiteral, p, Content(DQUOTE, pre))

\* State::TextBlockLiteral
TextBlockLiteralArm(c, p, pre) ==
    IF c = DQUOTE THEN TextBlockQuote(p, pre)
    ELSE IF c = BACKSLASH THEN Res(TextBlockLiteral, EscapeNext(p), EscapeEmit(p, pre))
    ELSE IF c = NL THEN Res(TextBlockLiteral, p, <<NL>>)
    ELSE Res(TextBlockLiteral, p, Content(c, pre))

\* CharLiteralArm with 2 spaces for a backslash, followed or not
CharLiteralArm_pads(c, p) ==
    IF c = BACKSLASH
    THEN Res(CharLiteral, EscapeNext(p), Spaces(2))
    ELSE IF c = SQUOTE THEN Res(Normal, p, Spaces(1))
    ELSE IF c = NL THEN Res(Normal, p, <<NL>>)
    ELSE Res(CharLiteral, p, Spaces(1))

\* CharLiteralArm with one space for an escape
CharLiteralArm_collapses(c, p) ==
    IF c = BACKSLASH
    THEN Res(CharLiteral, EscapeNext(p), Spaces(1))
    ELSE IF c = SQUOTE THEN Res(Normal, p, Spaces(1))
    ELSE IF c = NL THEN Res(Normal, p, <<NL>>)
    ELSE Res(CharLiteral, p, Spaces(1))

\* State::CharLiteral
CharLiteralArm(c, p) ==
    IF c = BACKSLASH
    THEN Res(CharLiteral, EscapeNext(p), IF Peek(p) = None THEN Spaces(1) ELSE Spaces(2))
    ELSE IF c = SQUOTE THEN Res(Normal, p, Spaces(1))
    ELSE IF c = NL THEN Res(Normal, p, <<NL>>)
    ELSE Res(CharLiteral, p, Spaces(1))

\* one iteration of while let Some(c) = chars.next(), from state st at
\* position p < Len(input)
Iteration(st, p, pre) ==
    LET c == input[p + 1]
    IN  CASE st = Normal -> NormalArm(c, p + 1)
          [] st = LineComment -> LineCommentArm(c, p + 1)
          [] st = BlockComment -> BlockCommentArm(c, p + 1)
          [] st = StringLiteral -> StringLiteralArm(c, p + 1, pre)
          [] st = TextBlockLiteral -> TextBlockLiteralArm(c, p + 1, pre)
          [] st = CharLiteral -> CharLiteralArm(c, p + 1)

RECURSIVE Run(_, _, _, _)
\* the loop of process run to the end of the input
Run(st, p, out, pre) ==
    IF p >= Len(input) THEN [state |-> st, output |-> out]
    ELSE LET r == Iteration(st, p, pre)
         IN  Run(r.state, r.pos, out \o r.emit, pre)

\* fn process(input, preserve_strings), on the input of this run
process(pre) == Run(Normal, 0, <<>>, pre).output

(***************************************************************************)
(* The scanner as a state machine: one action per arm of match state, and  *)
(* one for what main does with the result.                                 *)
(***************************************************************************)
ScanInit ==
    /\ \E k \in 0..MaxLen : input \in SeqsOfLen(Alphabet, k)
    /\ preserve_strings \in BOOLEAN
    /\ state = Normal
    /\ chars = 0
    /\ output = <<>>
    /\ stdout = <<>>
    /\ exit = "running"

\* the end of an iteration: the state, the iterator and the output it leaves
Iterated(r) ==
    /\ state' = r.state
    /\ chars' = r.pos
    /\ output' = output \o r.emit
    /\ UNCHANGED <<input, preserve_strings, stdout, exit, readerVars, writerVars>>

StepNormal ==
    /\ chars < Len(input)
    /\ state = Normal
    /\ Iterated(NormalArm(input[chars + 1], chars + 1))

StepLineComment ==
    /\ chars < Len(input)
    /\ state = LineComment
    /\ Iterated(LineCommentArm(input[chars + 1], chars + 1))

StepBlockComment ==
    /\ chars < Len(input)
    /\ state = BlockComment
    /\ Iterated(BlockCommentArm(input[chars + 1], chars + 1))

StepStringLiteral ==
    /\ chars < Len(input)
    /\ state = StringLiteral
    /\ Iterated(StringLiteralArm(input[chars + 1], chars + 1, preserve_strings))

StepTextBlockLiteral ==
    /\ chars < Len(input)
    /\ state = TextBlockLiteral
    /\ Iterated(TextBlockLiteralArm(input[chars + 1], chars + 1, preserve_strings))

StepCharLiteral ==
    /\ chars < Len(input)
    /\ state = CharLiteral
    /\ Iterated(CharLiteralArm(input[chars + 1], chars + 1))

\* the loop of process has ended: chars.next() returned None
Done == chars = Len(input)

\* println! with what "{}" and the line feed it adds make of s
println(s) == s \o <<NL>>

\* main, once process has returned: println!("{}", output); Ok(())
Println ==
    /\ Done
    /\ exit = "running"
    /\ stdout' = stdout \o println(output)
    /\ exit' = "Ok"
    /\ UNCHANGED <<input, preserve_strings, state, chars, output, readerVars, writerVars>>

ScanNext ==
    \/ StepNormal
    \/ StepLineComment
    \/ StepBlockComment
    \/ StepStringLiteral
    \/ StepTextBlockLiteral
    \/ StepCharLiteral
    \/ Println

TypeOK ==
    /\ input \in SeqsOfLen(Alphabet, Len(input))
    /\ Len(input) <= MaxLen
    /\ preserve_strings \in BOOLEAN
    /\ state \in State
    /\ chars \in 0..Len(input)
    /\ Done => output = process(preserve_strings)
    /\ exit \in {"running", "Ok"}

(***************************************************************************)
(* BufferedCharReader (src/buffered_char_reader.rs).  A character of the   *)
(* stream takes one byte, but WIDE, which takes two; buf is the sequence   *)
(* of the characters of the String and pos is a byte offset into it.       *)
(***************************************************************************)
WIDE == "W"

StreamAlphabet == {LETTER, NL, WIDE}

\* char::len_utf8
len_utf8(c) == IF c = WIDE THEN 2 ELSE 1

RECURSIVE ByteLen(_)
\* String::len: the length in bytes
ByteLen(b) == IF b = <<>> THEN 0 ELSE len_utf8(Head(b)) + ByteLen(Tail(b))

RECURSIVE CharAt(_, _)
\* self.buf[pos..].chars().next(): the character that starts at byte offset
\* p; slicing inside a character panics
CharAt(b, p) ==
    IF b = <<>> THEN "panic"
    ELSE IF p = 0 THEN Head(b)
    ELSE IF p < len_utf8(Head(b)) THEN "panic"
    ELSE CharAt(Tail(b), p - len_utf8(Head(b)))

RECURSIVE LineEnd(_, _)
\* BufReader::read_line: the index of the last character of the line that
\* starts after the first r characters of s (r when nothing is left)
LineEnd(s, r) ==
    IF r >= Len(s) THEN r
    ELSE IF s[r + 1] = NL THEN r + 1
    ELSE LineEnd(s, r + 1)

RECURSIVE fill_buf_if_needed(_)
\* fn fill_buf_if_needed: while self.pos >= self.buf.len(), clear buf, read
\* one line into it, and break when read_line read nothing
fill_buf_if_needed(rd) ==
    IF rd.pos >= ByteLen(rd.buf)
    THEN LET e == LineEnd(stream, rd.reader)
             line == [rd EXCEPT !.buf = SubSeq(stream, rd.reader + 1, e),
                                !.pos = 0,
                                !.reader = e]
             bytes_read == ByteLen(line.buf)
         IN  IF bytes_read = 0 THEN line ELSE fill_buf_if_needed(line)
    ELSE rd

\* next_char with pos advanced by one byte whatever the character
next_char_one_byte(rd) ==
    IF rd.peeked # None
    THEN [self |-> [rd EXCEPT !.peeked = None], ret |-> rd.peeked]
    ELSE LET f == fill_buf_if_needed(rd)
         IN  IF f.pos >= ByteLen(f.buf) THEN [self |-> f, ret |-> None]
             ELSE LET c == CharAt(f.buf, f.pos)
                  IN  [self |-> [f EXCEPT !.pos = f.pos + 1], ret |-> c]

\* pub fn next_char: the reader after the call and the value returned
next_char(rd) ==
    IF rd.peeked # None
    THEN [self |-> [rd EXCEPT !.peeked = None], ret |-> rd.peeked]
    ELSE LET f == fill_buf_if_needed(rd)
         IN  IF f.pos >= ByteLen(f.buf) THEN [self |-> f, ret |-> None]
             ELSE LET c == CharAt(f.buf, f.pos)
                  IN  [self |-> [f EXCEPT !.pos = f.pos + len_utf8(c)], ret |-> c]

\* pub fn peek_char: the reader after the call and the value returned
peek_char(rd) ==
    IF rd.peeked = None
    THEN LET nx == next_char(rd)
         IN  [self |-> [nx.self EXCEPT !.peeked = nx.ret], ret |-> nx.ret]
    ELSE [self |-> rd, ret |-> rd.peeked]

\* BufferedCharReader::new
new_reader == [reader |-> 0, buf |-> <<>>, pos |-> 0, peeked |-> None]

ReaderInit ==
    /\ \E k \in 0..MaxStream : stream \in SeqsOfLen(StreamAlphabet, k)
    /\ self = new_reader
    /\ called = "new"
    /\ returned = None
    /\ got = <<>>

CallNextChar ==
    /\ Len(got) < Len(stream) + MaxEofCalls
    /\ LET nx == next_char(self)
       IN  /\ self' = nx.self
           /\ returned' = nx.ret
           /\ got' = Append(got, nx.ret)
    /\ called' = "next_char"
    /\ UNCHANGED <<stream, scanVars, writerVars>>

CallPeekChar ==
    /\ LET pk == peek_char(self)
       IN  /\ self' = pk.self
           /\ returned' = pk.ret
    /\ called' = "peek_char"
    /\ UNCHANGED <<stream, got, scanVars, writerVars>>

ReaderNext ==
    \/ CallNextChar
    \/ CallPeekChar

(***************************************************************************)
(* OutputWriter::write_n_spaces (src/output_writer.rs)                     *)
(***************************************************************************)
\* const CHUNK: CHUNK.len()
CHUNK_LEN == 16

Min(a, b) == IF a < b THEN a ELSE b

\* the chunk length taken as the whole of CHUNK
ChunkLen_whole(rem) == CHUNK_LEN

\* let len = remaining.min(CHUNK.len())
ChunkLen(rem) == Min(rem, CHUNK_LEN)

WriterInit ==
    /\ n \in 0..MaxN
    /\ remaining = n
    /\ writer = <<>>
    /\ result = "running"

\* one iteration of the loop, write_all succeeds
WriteChunk ==
    /\ result = "running"
    /\ remaining > 0
    /\ LET len == ChunkLen(remaining)
       IN  /\ writer' = writer \o Spaces(len)
           /\ remaining' = remaining - len
    /\ UNCHANGED <<n, result, scanVars, readerVars>>

\* one iteration of the loop, write_all fails after k bytes of the chunk
\* and ? returns the error
WriteChunkFails ==
    /\ result = "running"
    /\ remaining > 0
    /\ \E k \in 0..(ChunkLen(remaining) - 1) : writer' = writer \o Spaces(k)
    /\ result' = "Err"
    /\ UNCHANGED <<n, remaining, scanVars, readerVars>>

\* the loop ends: Ok(())
WriteReturn ==
    /\ result = "running"
    /\ ~(remaining > 0)
    /\ result' = "Ok"
    /\ UNCHANGED <<n, remaining, writer, scanVars, readerVars>>

WriterNext ==
    \/ WriteChunk
    \/ WriteChunkFails
    \/ WriteReturn

(***************************************************************************)
(* Specifications.  Each one runs one component; the others are not in    *)
(* use.                                                                    *)
(***************************************************************************)
ScanIdle ==
    /\ input = <<>>
    /\ preserve_strings = FALSE
    /\ state = Normal
    /\ chars = 0
    /\ output = <<>>
    /\ stdout = <<>>
    /\ exit = "running"

ReaderIdle ==
    /\ stream = <<>>
    /\ self = new_reader
    /\ called = "new"
    /\ returned = None
    /\ got = <<>>

WriterIdle ==
    /\ n = 0
    /\ remaining = 0
    /\ writer = <<>>
    /\ result = "Ok"

Init == ScanInit /\ ReaderIdle /\ WriterIdle

\* the scanner
Spec == Init /\ [][ScanNext]_vars

FairInit ==
    /\ \E k \in 0..MaxFairLen : input \in SeqsOfLen(Alphabet, k)
    /\ preserve_strings \in BOOLEAN
    /\ state = Normal
    /\ chars = 0
    /\ output = <<>>
    /\ stdout = <<>>
    /\ exit = "running"
    /\ ReaderIdle
    /\ WriterIdle

\* the scanner, run to its end: the loop of process and main are sequential
\* code, which goes on while it has a next step
FairSpec == FairInit /\ [][ScanNext]_vars /\ WF_vars(ScanNext)

ReaderSpecInit == ScanIdle /\ ReaderInit /\ WriterIdle

\* the character source under any interleaving of its two methods
ReaderSpec == ReaderSpecInit /\ [][ReaderNext]_vars

WriterSpecInit == ScanIdle /\ ReaderIdle /\ WriterInit

\* write_n_spaces; the loop goes on until it returns
WriterSpec == WriterSpecInit /\ [][WriterNext]_vars /\ WF_vars(WriterNext)

(***************************************************************************)
(* Helpers of the properties                                               *)
(***************************************************************************)
Count(ch, s) == Cardinality({i \in 1..Len(s) : s[i] = ch})

\* the indices of s that hold a newline
NewlineIdx(s) == {i \in 1..Len(s) : s[i] = NL}

RECURSIVE DispatchedFrom(_, _, _)
\* the pairs <<state, c>> the loop of process dispatches on, from state st at
\* position p to the end of the input
DispatchedFrom(st, p, pre) ==
    IF p >= Len(input) THEN {}
    ELSE LET r == Iteration(st, p, pre)
         IN  {<<st, input[p + 1]>>} \cup DispatchedFrom(r.state, r.pos, pre)

Dispatched(pre) == DispatchedFrom(Normal, 0, pre)

\* no backslash is met inside a string literal or a text block
NoEscapeInString ==
    /\ <<StringLiteral, BACKSLASH>> \notin Dispatched(preserve_strings)
    /\ <<TextBlockLiteral, BACKSLASH>> \notin Dispatched(preserve_strings)

\* no block comment goes over a line break
NoMultiLineBlockComment == <<BlockComment, NL>> \notin Dispatched(preserve_strings)

\* the indices of output' the step from this state to the next one emits
EmittedNow(i) == i \in (Len(output) + 1)..Len(output')

(***************************************************************************)
(* Well-formed lexical constructs, as sequences of characters              *)
(***************************************************************************)
IsLineComment(w) ==
    /\ Len(w) >= 3
    /\ w[1] = SLASH /\ w[2] = SLASH /\ w[Len(w)] = NL
    /\ \A i \in 3..(Len(w) - 1) : w[i] # NL

\* the closing */ is the first one after the opening /*
IsBlockComment(w) ==
    /\ Len(w) >= 4
    /\ w[1] = SLASH /\ w[2] = STAR /\ w[Len(w) - 1] = STAR /\ w[Len(w)] = SLASH
    /\ \A i \in 3..(Len(w) - 2) : ~(w[i] = STAR /\ w[i + 1] = SLASH)

RECURSIVE QuotedBody(_, _, _, _)
\* w[i..last] holds plain characters and backslash escapes, with no quote q
\* and no line break
QuotedBody(w, i, last, q) ==
    IF i > last THEN TRUE
    ELSE IF w[i] = BACKSLASH
         THEN i + 1 <= last /\ w[i + 1] # NL /\ QuotedBody(w, i + 2, last, q)
    ELSE IF w[i] \in {q, NL} THEN FALSE
    ELSE QuotedBody(w, i + 1, last, q)

IsStringLiteral(w) ==
    /\ Len(w) >= 2
    /\ w[1] = DQUOTE /\ w[Len(w)] = DQUOTE
    /\ QuotedBody(w, 2, Len(w) - 1, DQUOTE)

\* 'c' or '\c'
IsCharLiteral(w) ==
    /\ Len(w) \in {3, 4}
    /\ w[1] = SQUOTE /\ w[Len(w)] = SQUOTE
    /\ w[2] = BACKSLASH <=> Len(w) = 4
    /\ QuotedBody(w, 2, Len(w) - 1, SQUOTE)

RECURSIVE TextBlockBody(_, _)
\* from index i on, w holds content and escapes up to one closing """ that
\* ends w
TextBlockBody(w, i) ==
    IF i > Len(w) THEN FALSE
    ELSE IF w[i] = BACKSLASH THEN TextBlockBody(w, i + 2)
    ELSE IF i + 2 <= Len(w) /\ w[i] = DQUOTE /\ w[i + 1] = DQUOTE /\ w[i + 2] = DQUOTE
         THEN i + 2 = Len(w)
    ELSE TextBlockBody(w, i + 1)

IsTextBlock(w) ==
    /\ Len(w) >= 6
    /\ w[1] = DQUOTE /\ w[2] = DQUOTE /\ w[3] = DQUOTE
    /\ TextBlockBody(w, 4)

WellFormedConstruct(w) ==
    \/ IsLineComment(w)
    \/ IsBlockComment(w)
    \/ IsStringLiteral(w)
    \/ IsCharLiteral(w)
    \/ IsTextBlock(w)

(***************************************************************************)
(* Properties of the scanner                                               *)
(***************************************************************************)

\* C1: for every input and both values of preserve_strings, the output of
\* process holds exactly as many newlines as the input.
C1_NewlineCountKept ==
    Done => Count(NL, output) = Count(NL, input)

\* C2: for an input with no backslash inside a string literal or text block
\* and no block comment over more than one line, the output of process is as
\* long as the input.
C2_LengthKept ==
    (Done /\ NoEscapeInString /\ NoMultiLineBlockComment) => Len(output) = Len(input)

\* C3: after a well-formed line comment, block comment, string literal,
\* character literal or text block that began in state Normal the state is
\* Normal again, and an ordinary code character that follows is emitted as
\* one space.
C3_BackToNormal ==
    /\ (Done /\ WellFormedConstruct(input)) => state = Normal
    /\ (Done /\ Len(input) >= 1 /\ input[Len(input)] = LETTER
             /\ WellFormedConstruct(SubSeq(input, 1, Len(input) - 1)))
          => (state = Normal /\ output[Len(output)] = SPACE)

\* C4: with preserve_strings off, a character emitted in state Normal,
\* StringLiteral, TextBlockLiteral or CharLiteral is a space or a newline; an
\* emitted character that is neither was copied from the input in state
\* LineComment or BlockComment.
C4_MaskedOutsideComments ==
    [][~preserve_strings =>
          \A i \in 1..Len(output') :
              (EmittedNow(i) /\ output'[i] \notin {SPACE, NL}) =>
                  /\ state \in {LineComment, BlockComment}
                  /\ output'[i] = input[chars + 1]
                  /\ Len(output') = Len(output) + 1]_vars

\* a run with preserve_strings off that has masked a code character and
\* copied a comment character
C4_Witness ==
    /\ ~preserve_strings
    /\ Done
    /\ Len(input) >= 2
    /\ Len(output) >= 2
    /\ input[1] = LETTER
    /\ output[1] = SPACE
    /\ output[Len(output)] = LETTER

\* C5: an input made only of spaces, tabs and newlines is its own output.
C5_WhitespaceUnchanged ==
    (Done /\ \A i \in 1..Len(input) : input[i] \in {SPACE, TAB, NL}) => output = input

\* C6: from each of the five states other than Normal, the step taken on the
\* next newline of the input leaves the state Normal.
C6_NewlineEndsConstruct ==
    [][(state # Normal /\ chars < Len(input) /\ chars' # chars /\ input[chars + 1] = NL)
          => state' = Normal]_vars

\* C6 as amended: a newline dispatched in state LineComment, StringLiteral or
\* CharLiteral leaves the state Normal; a newline taken as the target of a
\* backslash leaves the state as it is; a newline in TextBlockLiteral leaves
\* the state TextBlockLiteral; a newline in BlockComment leaves the state
\* BlockComment unless the step ends on a closing */.
C6_UnescapedNewlineEndsLine ==
    [][(chars < Len(input) /\ chars' # chars) =>
          /\ (state \in {LineComment, StringLiteral, CharLiteral} /\ input[chars + 1] = NL)
                => state' = Normal
          /\ (state \in {StringLiteral, TextBlockLiteral, CharLiteral}
                /\ input[chars + 1] = BACKSLASH /\ Peek(chars + 1) = NL)
                => (state' = state /\ chars' = chars + 2)
          /\ (state = TextBlockLiteral /\ input[chars + 1] = NL) => state' = TextBlockLiteral
          /\ (state = BlockComment /\ input[chars + 1] = NL)
                => \/ state' = BlockComment
                   \/ /\ state' = Normal
                      /\ chars' >= chars + 3
                      /\ input[chars' - 1] = STAR /\ input[chars'] = SLASH]_vars

\* an unterminated string or character literal has been ended by the newline
\* after its content
C6_Witness ==
    /\ Len(input) >= 3
    /\ input[1] \in {DQUOTE, SQUOTE}
    /\ input[2] = LETTER
    /\ input[3] = NL
    /\ chars = 3
    /\ state = Normal

\* C7: for an input with no block comment over more than one line, the
\* output with preserve_strings on and the output with preserve_strings off
\* hold their newlines at the same indices.
C7_NewlinesAligned ==
    (Done /\ NoMultiLineBlockComment)
        => NewlineIdx(process(TRUE)) = NewlineIdx(process(FALSE))

\* C8: for the input /* TEXT */ on one line, TEXT without *, the output is 2
\* spaces, then TEXT unchanged, then 2 spaces.
C8_SingleLineBlockComment ==
    (/\ Done
     /\ Len(input) >= 4
     /\ input[1] = SLASH /\ input[2] = STAR
     /\ input[Len(input) - 1] = STAR /\ input[Len(input)] = SLASH
     /\ \A i \in 3..(Len(input) - 2) : input[i] \notin {STAR, NL})
        => output = Spaces(2) \o SubSeq(input, 3, Len(input) - 2) \o Spaces(2)

(***************************************************************************)
(* Properties of the character source                                      *)
(***************************************************************************)

\* C9: under any interleaving of peek_char and next_char on a finite stream,
\* the calls of next_char return the characters of the stream in order, each
\* once, then end-of-stream on every later call; the call that follows a
\* peek_char, be it next_char or peek_char, returns what that peek returned.
C9_ReaderFifo ==
    /\ [](\A i \in 1..Len(got) : got[i] = IF i <= Len(stream) THEN stream[i] ELSE None)
    /\ [][called = "peek_char" => returned' = returned]_vars

\* a peek over a line break: after a newline has been taken, a peek has
\* read the next line into buf and holds a two-byte character
C9_Witness ==
    /\ Len(got) >= 2
    /\ got[Len(got)] = NL
    /\ called = "peek_char"
    /\ returned = WIDE
    /\ self.peeked = WIDE
    /\ self.pos = 2

(***************************************************************************)
(* Properties of the output sink                                           *)
(***************************************************************************)

\* C10: write_n_spaces(n) returns; only spaces are written; when it returns
\* Ok exactly n spaces have been written; when a chunk write fails it returns
\* Err with no chunk written after the failed one.
C10_WriteNSpaces ==
    /\ [](\A i \in 1..Len(writer) : writer[i] = SPACE)
    /\ [](result = "Ok" => Len(writer) = n)
    /\ [](result = "Err" =>
            /\ Len(writer) >= n - remaining
            /\ Len(writer) < n - remaining + Min(remaining, CHUNK_LEN))
    /\ <>(result \in {"Ok", "Err"})

\* a call that took three chunks, the last one shorter than CHUNK
C10_Witness ==
    /\ result = "Ok"
    /\ n > 2 * CHUNK_LEN
    /\ n < 3 * CHUNK_LEN
    /\ Len(writer) = n
    /\ remaining = 0

(***************************************************************************)
(* Properties of the arms of the scanner                                   *)
(***************************************************************************)
\* the step from this state to the next one is an iteration of the loop of
\* process, taken in state st on the character c
Dispatch(st, c) ==
    /\ chars < Len(input)
    /\ chars' # chars
    /\ state = st
    /\ input[chars + 1] = c

\* the characters the step emits
Emitted == SubSeq(output', Len(output) + 1, Len(output'))

\* C11: in state TextBlockLiteral a '"' that is not followed by two more '"'
\* is one content character: the step consumes that character only, emits
\* one character for it (the quote if preserve_strings, else a space) and
\* stays in TextBlockLiteral, also when one more '"' follows.
C11_LoneQuoteIsContent ==
    [][(/\ Dispatch(TextBlockLiteral, DQUOTE)
        /\ ~(Peek(chars + 1) = DQUOTE /\ Peek(chars + 2) = DQUOTE))
          => /\ chars' = chars + 1
             /\ Emitted = (IF preserve_strings THEN <<DQUOTE>> ELSE <<SPACE>>)
             /\ state' = TextBlockLiteral]_vars

\* C12: in state StringLiteral a backslash followed by a character consumes
\* both, emits one character (the escaped one if preserve_strings, else a
\* space) and stays in StringLiteral; a backslash that ends the input emits
\* nothing.
C12_StringEscape ==
    [][Dispatch(StringLiteral, BACKSLASH) =>
          /\ state' = StringLiteral
          /\ IF chars + 1 < Len(input)
             THEN /\ chars' = chars + 2
                  /\ Emitted = (IF preserve_strings THEN <<input[chars + 2]>> ELSE <<SPACE>>)
             ELSE /\ chars' = chars + 1
                  /\ Emitted = <<>>]_vars

\* an escaped '"' has been consumed inside a string literal, which is still
\* open
C12_Witness ==
    /\ chars = 3
    /\ input[1] = DQUOTE /\ input[2] = BACKSLASH /\ input[3] = DQUOTE
    /\ state = StringLiteral
    /\ Len(output) = 2
    /\ preserve_strings
    /\ output[2] = DQUOTE

\* C13: in state Normal, '"' followed by two more '"' consumes 3 characters,
\* emits 3 spaces and enters TextBlockLiteral; '"' followed by one more '"'
\* and then another character or the end of the input consumes 2, emits 2
\* spaces and stays Normal; any other '"' consumes 1, emits 1 space and
\* enters StringLiteral.
C13_QuoteRun ==
    [][Dispatch(Normal, DQUOTE) =>
          LET quotes == IF Peek(chars + 1) # DQUOTE THEN 1
                        ELSE IF Peek(chars + 2) # DQUOTE THEN 2
                        ELSE 3
          IN  /\ chars' = chars + quotes
              /\ Emitted = Spaces(quotes)
              /\ state' = (CASE quotes = 1 -> StringLiteral
                             [] quotes = 2 -> Normal
                             [] quotes = 3 -> TextBlockLiteral)]_vars

\* an empty string literal followed by a code character: both quotes are
\* taken in one step and the state is Normal
C13_Witness ==
    /\ Len(input) >= 3
    /\ input[1] = DQUOTE /\ input[2] = DQUOTE /\ input[3] = LETTER
    /\ chars = 2
    /\ state = Normal
    /\ output = Spaces(2)

\* the first index after position p of input that holds neither a space nor
\* a tab, Len(input) + 1 when there is none
FirstNonBlank(p) ==
    CHOOSE q \in (p + 1)..(Len(input) + 1) :
        /\ q = Len(input) + 1 \/ input[q] \notin {SPACE, TAB}
        /\ \A i \in (p + 1)..(q - 1) : input[i] \in {SPACE, TAB}

\* the step from this state to the next one runs the continuation check, at
\* position p of input
ChecksContinuation(p) ==
    \/ Dispatch(BlockComment, NL) /\ p = chars + 1
    \/ /\ Dispatch(Normal, SLASH)
       /\ Peek(chars + 1) = STAR
       /\ p > chars + 1
       /\ \A i \in (chars + 2)..p : input[i] = STAR
       /\ Peek(p) # STAR

\* C14: in state LineComment every character up to and including the next
\* newline is copied unchanged, one per step; the state stays LineComment
\* until the newline and is Normal after it, whatever the characters are.
C14_LineCommentCopies ==
    [][(chars < Len(input) /\ chars' # chars /\ state = LineComment) =>
          /\ chars' = chars + 1
          /\ Emitted = <<input[chars + 1]>>
          /\ state' = (IF input[chars + 1] = NL THEN Normal ELSE LineComment)]_vars

\* a line comment has copied a delimiter character and is still open
C14_Witness ==
    /\ chars = 4
    /\ input[1] = SLASH /\ input[2] = SLASH
    /\ input[3] \in {STAR, DQUOTE, SQUOTE, BACKSLASH}
    /\ input[4] = SLASH
    /\ state = LineComment
    /\ output = Spaces(2) \o SubSeq(input, 3, 4)

\* C15: the continuation check emits nothing and consumes only the leading
\* run of spaces and tabs, then at most one '*', then at most one '/' (it
\* then reports closed) or one space; it reports closed only when the first
\* character that is neither space nor tab is '*' and the next one is '/';
\* it consumes no newline.
C15_ContinuationCheck ==
    [][\A p \in 1..Len(input) : ChecksContinuation(p) =>
          LET q == FirstNonBlank(p)
              emitted == IF state = BlockComment THEN <<NL>> ELSE Spaces(p - chars)
          IN  /\ Emitted = emitted
              /\ chars' \in {q - 1, q, q + 1}
              /\ chars' >= q <=> Peek(q - 1) = STAR
              /\ chars' = q + 1 <=> (Peek(q - 1) = STAR /\ Peek(q) \in {SLASH, SPACE})
              /\ state' = Normal <=> (Peek(q - 1) = STAR /\ Peek(q) = SLASH)
              /\ state' \in {Normal, BlockComment}
              /\ \A i \in (p + 1)..chars' : input[i] # NL]_vars

\* the check run after an opener has skipped a blank and closed the comment
\* on the */ after it
C15_Witness ==
    /\ chars = 5
    /\ input[1] = SLASH /\ input[2] = STAR
    /\ input[3] \in {SPACE, TAB}
    /\ input[4] = STAR /\ input[5] = SLASH
    /\ state = Normal
    /\ output = Spaces(2)

\* an iteration of the loop of process
LoopIteration ==
    \/ StepNormal
    \/ StepLineComment
    \/ StepBlockComment
    \/ StepStringLiteral
    \/ StepTextBlockLiteral
    \/ StepCharLiteral

\* C16: the content of a character literal is masked whatever
\* preserve_strings is: for an input on which the scanner never is in state
\* StringLiteral or TextBlockLiteral the output of the finished run is also
\* the output with the other value of the flag, and in state CharLiteral a backslash followed by a
\* character consumes both and emits 2 spaces.
C16_CharLiteralMasked ==
    /\ []((/\ exit = "Ok"
           /\ \A d \in Dispatched(preserve_strings) :
                  d[1] \notin {StringLiteral, TextBlockLiteral})
            => output = process(~preserve_strings))
    /\ [][(Dispatch(CharLiteral, BACKSLASH) /\ chars + 1 < Len(input)) =>
             /\ chars' = chars + 2
             /\ Emitted = Spaces(2)
             /\ state' = CharLiteral]_vars

\* with preserve_strings on, an escape has been masked inside a character
\* literal
C16_Witness ==
    /\ preserve_strings
    /\ chars = 3
    /\ input[1] = SQUOTE /\ input[2] = BACKSLASH /\ input[3] = LETTER
    /\ state = CharLiteral
    /\ output = Spaces(3)

\* C17: the scanner has a transition for every character in every state and
\* never fails: while input is left an iteration can be taken, each
\* iteration consumes at least one character and none takes more than the
\* input holds, so the scan ends with all input consumed; once the input has
\* ended, in whatever state, nothing more is emitted.
C17_ScanTerminates ==
    /\ [](~Done => ENABLED LoopIteration)
    /\ [](chars <= Len(input))
    /\ [][~Done => chars' > chars]_vars
    /\ [][Done => (output' = output /\ state' = state)]_vars
    /\ <>Done

\* the input has ended inside an open construct, after a backslash that
\* nothing follows
C17_Witness ==
    /\ Done
    /\ Len(input) >= 2
    /\ input[Len(input)] = BACKSLASH
    /\ state \in {StringLiteral, TextBlockLiteral, CharLiteral}

(***************************************************************************)
(* Properties of the driver and of the two settings of preserve_strings    *)
(***************************************************************************)

\* C18: main writes to standard output exactly the characters process
\* returned, none added and none removed.
C18_StdoutIsOutput ==
    exit = "Ok" => stdout = output

RECURSIVE PathFrom(_, _, _)
\* the states and positions the loop of process goes through, from state st
\* at position p to the end of the input
PathFrom(st, p, pre) ==
    IF p >= Len(input) THEN <<>>
    ELSE LET r == Iteration(st, p, pre)
         IN  <<<<st, p>>>> \o PathFrom(r.state, r.pos, pre)

\* C19: preserve_strings changes only the characters emitted: the runs with
\* the flag on and off go through the same states at the same positions,
\* their outputs have the same length, and they differ only at indices where
\* the output with the flag off holds a space.
C19_FlagChangesCharactersOnly ==
    exit = "Ok" =>
        LET on == process(TRUE)
            off == process(FALSE)
        IN  /\ output = (IF preserve_strings THEN on ELSE off)
            /\ PathFrom(Normal, 0, TRUE) = PathFrom(Normal, 0, FALSE)
            /\ Len(on) = Len(off)
            /\ \A i \in 1..Len(on) : on[i] # off[i] => off[i] = SPACE

\* a run with the flag on whose output differs from the one with the flag
\* off, in the content of a string literal and in an escaped character
C19_Witness ==
    /\ Done
    /\ preserve_strings
    /\ Len(input) >= 4
    /\ input[1] = DQUOTE /\ input[2] = LETTER /\ input[3] = BACKSLASH
    /\ output # process(FALSE)

\* C20: at every point of a scan the number of characters emitted is at most
\* the number consumed, and no step emits more characters than it consumes.
C20_NeverLonger ==
    /\ [](Len(output) <= chars)
    /\ [][Len(output') - Len(output) <= chars' - chars]_vars

\* a scan that ended on a backslash inside a character literal with as many
\* characters emitted as consumed
C20_Witness ==
    /\ Done
    /\ Len(input) >= 2
    /\ input[Len(input)] = BACKSLASH
    /\ state = CharLiteral
    /\ Len(output) = Len(input)
====
